---- MODULE Spec2Model ----
(***************************************************************************)
(* FocusMail: the feedback store kept in localStorage, the sender          *)
(* normaliser and the relevance retriever of src/services/gmailService.ts  *)
(* (lines 300-453 hold the Gemini service), driven by the calls that       *)
(* App (src/unnamed/part_000) makes with a user id; classifyEmail and the  *)
(* batch App.loadEmails runs over the unread mail; the reclassification    *)
(* handlers of App.                                                        *)
(*                                                                         *)
(* Strings whose characters matter (senders) are sequences of one-letter   *)
(* strings; subjects and snippets are opaque strings named by numbers.     *)
(***************************************************************************)
EXTENDS Integers, Sequences, FiniteSets, Bags, TLC

VARIABLES
    storage,    \* localStorage[STORAGE_KEY]: the persisted text, by kind
    now,        \* the last value Date.now() returned
    lastCall,   \* the last call made on the service, with its arguments
    result,     \* what that call returned (a JS value), or Undefined
    tasks,      \* the promises of the classifyEmail calls made on the service
    emails,     \* App state: the displayed messages
    trainingData,   \* App state: the displayed reclassifications
    isLoading,  \* App state: the loading flag
    error,      \* App state: the error banner, or Null
    accessToken,    \* App state: the access token, or Null
    tokenStore, \* localStorage[TOKEN_KEY], or Null
    loads,      \* the loadEmails calls in flight by slot, and the one ended last
    written,    \* the entry the last completed handleMoveEmail saved
    userEmail,  \* App state: the address of the profile, or Null
    isDemoMode, \* App state: the demo flag
    tokenRequests,  \* how many requestAccessToken calls await their callback
    profiles,   \* the bag of the getUserProfile calls in flight, by their token
    credentials,    \* App state: the saved credentials
    marking,    \* the handleMarkAllRead calls by slot: in flight, or ended
    trainingDataFor,    \* the user id trainingData was last loaded with
    tabs,       \* the store call each browser tab is making
    lastWriter  \* the tab whose setItem came last, or 0

storeVars == <<storage, now, lastCall, result>>

\* Who is signed in.
identityVars == <<userEmail, isDemoMode, tokenRequests, profiles>>

\* The token and the identity of the session.
sessionVars == <<accessToken, tokenStore, credentials, identityVars>>

tabVars == <<tabs, lastWriter>>

appVars == <<emails, trainingData, isLoading, error, loads, written, marking,
             trainingDataFor, sessionVars, tabVars>>

vars == <<storage, now, lastCall, result, tasks, emails, trainingData,
          isLoading, error, accessToken, tokenStore, loads, written, userEmail,
          isDemoMode, tokenRequests, profiles, credentials, marking,
          trainingDataFor, tabs, lastWriter>>

----------------------------------------------------------------------------
(* Bounds of the model *)

\* How many milliseconds the clock may advance past Epoch.
MaxTicks == 1

\* How many loadEmails calls may be in flight at once.
MaxLoads == 2

\* How many markEmailsAsRead calls may be in flight at once.
MaxMarks == 2

\* How many token requests, and how many profile requests of one token, may
\* be in flight at once.
MaxRequests == 2

----------------------------------------------------------------------------
(* Program constants *)

\* [newExample, ...uniqueHistory].slice(0, 100)
HISTORY_LIMIT == 100

\* getRelevantExamples(email, allHistory, 5) in classifyEmail
CLASSIFY_LIMIT == 5

PERSONAL == "Personal"
NOT_PERSONAL == "Not Personal"
UNCLASSIFIED == "Unclassified"

ClassificationCategory == {PERSONAL, NOT_PERSONAL, UNCLASSIFIED}

----------------------------------------------------------------------------
(* Strings as character sequences *)

Min(a, b) == IF a <= b THEN a ELSE b

\* The characters of the model are those of Latin-1 (U+0000 to U+00FF): its
\* capital letters, A to Z and U+00C0 to U+00DE without the multiplication
\* sign, and the small letters String.prototype.toLowerCase maps them to.
LowerCase ==
    LET upper == <<
            "A", "B", "C", "D", "E", "F", "G", "H", "I", "J", "K", "L",
            "M", "N", "O", "P", "Q", "R", "S", "T", "U", "V", "W", "X",
            "Y", "Z", "À", "Á", "Â", "Ã", "Ä", "Å", "Æ", "Ç", "È", "É",
            "Ê", "Ë", "Ì", "Í", "Î", "Ï", "Ð", "Ñ", "Ò", "Ó", "Ô", "Õ",
            "Ö", "Ø", "Ù", "Ú", "Û", "Ü", "Ý", "Þ" >>
        lower == <<
            "a", "b", "c", "d", "e", "f", "g", "h", "i", "j", "k", "l",
            "m", "n", "o", "p", "q", "r", "s", "t", "u", "v", "w", "x",
            "y", "z", "à", "á", "â", "ã", "ä", "å", "æ", "ç", "è", "é",
            "ê", "ë", "ì", "í", "î", "ï", "ð", "ñ", "ò", "ó", "ô", "õ",
            "ö", "ø", "ù", "ú", "û", "ü", "ý", "þ" >>
    IN [c \in {upper[i] : i \in 1..Len(upper)} |->
           lower[CHOOSE i \in 1..Len(upper) : upper[i] = c]]

\* Mutant: only the letters A to Z are lowered.
LowerCharAscii(c) ==
    IF c \in {"A", "B", "C", "D", "E", "F", "G", "H", "I", "J", "K", "L", "M", "N",
              "O", "P", "Q", "R", "S", "T", "U", "V", "W", "X", "Y", "Z"}
    THEN LowerCase[c]
    ELSE c

\* String.prototype.toLowerCase on one character: a capital letter is
\* lowered, every other character is kept.
LowerChar(c) == IF c \in DOMAIN LowerCase THEN LowerCase[c] ELSE c

toLowerCase(s) == [i \in 1..Len(s) |-> LowerChar(s[i])]

\* The first index j > i with s[j] = ">", or 0: where [^>]+ stops.
FirstGt(s, i) ==
    LET js == {j \in (i+1)..Len(s) : s[j] = ">"}
    IN IF js = {} THEN 0 ELSE CHOOSE j \in js : \A k \in js : j <= k

\* /<([^>]+)>/ matches starting at i: "<", one or more non-">", then ">".
MatchAt(s, i) == s[i] = "<" /\ FirstGt(s, i) >= i + 2

\* The leftmost start of a match, or 0 when senderStr.match(...) is null.
MatchStart(s) ==
    LET is == {i \in 1..Len(s) : MatchAt(s, i)}
    IN IF is = {} THEN 0 ELSE CHOOSE i \in is : \A k \in is : i <= k

extractEmailAddress(senderStr) ==
    LET i == MatchStart(senderStr)
    IN IF i # 0
       THEN toLowerCase(SubSeq(senderStr, i + 1, FirstGt(senderStr, i) - 1))
       ELSE toLowerCase(senderStr)

----------------------------------------------------------------------------
(* Inputs: messages and user ids *)

\* "Bob <é@x>": the address holds a letter outside ASCII
BobX == <<"B", "o", "b", " ", "<", "é", "@", "x", ">">>
\* "Rob <É@x>": another display name, the address in another letter case
RobertX == <<"R", "o", "b", " ", "<", "É", "@", "x", ">">>
\* "É@X": a bare address in upper case
BareX == <<"É", "@", "X">>
\* "Bob <é@y>": the same display name, another address
BobY == <<"B", "o", "b", " ", "<", "é", "@", "y", ">">>
\* "Bob <e@x>": the address of BobX without its accent
UnaccentedX == <<"B", "o", "b", " ", "<", "e", "@", "x", ">">>
\* "n@z": the sender of the messages that fill a log
FillerSender == <<"n", "@", "z">>

Email(id, sender, subject) ==
    [id |-> id, sender |-> sender, subject |-> subject, snippet |-> id]

\* The messages the classifier is asked about: those the user reclassifies,
\* and one no reclassified message shares its address with.
Emails ==
    { Email(1, BobX, 1), Email(2, RobertX, 1),
      Email(3, BareX, 2), Email(4, BobY, 1), Email(5, UnaccentedX, 1) }

\* The k-th message of a run of reclassifications of distinct messages.
FillerEmail(k) == Email(HISTORY_LIMIT + k, FillerSender, HISTORY_LIMIT + k)

\* The reclassifications the user makes: a message and the category the move
\* button passes. Message 1 is moved both ways, so a later save of a key can
\* differ from the earlier one in its category.
Moves ==
    { <<Email(1, BobX, 1), PERSONAL>>, <<Email(1, BobX, 1), NOT_PERSONAL>>,
      <<Email(2, RobertX, 1), NOT_PERSONAL>>, <<Email(3, BareX, 2), PERSONAL>>,
      <<Email(4, BobY, 1), PERSONAL>> }

\* Values of currentUserId: two signed-in accounts.
UserIds == {"alice@x.com", "bob@x.com"}

----------------------------------------------------------------------------
(* localStorage text and JSON *)

Text(kind, items) == [kind |-> kind, items |-> items]

\* localStorage.getItem returns null: nothing was ever stored.
Missing == Text("missing", <<>>)
\* The stored text is "".
EmptyText == Text("empty", <<>>)
\* The stored text is not JSON.
Garbage == Text("garbage", <<>>)
\* The stored text is "null".
JsonNull == Text("null", <<>>)
\* The stored text is "{}".
JsonObject == Text("object", <<>>)

\* JSON.stringify of an array of training examples.
JSONstringify(items) == Text("array", items)

JsValue(type, items) == [type |-> type, items |-> items]
Undefined == JsValue("undefined", <<>>)
Threw == JsValue("throw", <<>>)
Array(items) == JsValue("array", items)

IsArray(v) == v.type = "array"

\* JSON.parse of a stored text: the value, or Threw for a SyntaxError.
JSONparse(text) ==
    CASE text.kind = "array" -> Array(text.items)
      [] text.kind = "null" -> JsValue("null", <<>>)
      [] text.kind = "object" -> JsValue("object", <<>>)
      [] OTHER -> Threw

\* data ? JSON.parse(data) : [] inside try/catch returning [].
getStoredTrainingData ==
    IF storage.kind \in {"missing", "empty"}
    THEN Array(<<>>)
    ELSE IF JSONparse(storage) = Threw THEN Array(<<>>) ELSE JSONparse(storage)

----------------------------------------------------------------------------
(* The feedback store *)

newExample(email, correctCategory, timestamp) ==
    [ subject |-> email.subject,
      sender |-> email.sender,
      snippet |-> email.snippet,
      userClassification |-> correctCategory,
      timestamp |-> timestamp ]

IsDuplicate(h, example) ==
    h.subject = example.subject /\ h.sender = example.sender

uniqueHistory(currentHistory, example) ==
    SelectSeq(currentHistory, LAMBDA h : ~IsDuplicate(h, example))

\* Mutant: the truncation is left out.
sliceNoLimit(items, n) == items

\* Array.prototype.slice(0, n)
slice(items, n) == SubSeq(items, 1, Min(n, Len(items)))

\* Mutant: [...uniqueHistory, newExample]: the new example goes last.
updatedHistoryAppend(currentHistory, example) ==
    slice(Append(uniqueHistory(currentHistory, example), example), HISTORY_LIMIT)

\* Mutant: slice(-100): the last 100 are kept instead of the first 100.
updatedHistoryKeepLast(currentHistory, example) ==
    LET all == <<example>> \o uniqueHistory(currentHistory, example)
    IN SubSeq(all, Len(all) - Min(HISTORY_LIMIT, Len(all)) + 1, Len(all))

\* [newExample, ...uniqueHistory].slice(0, 100)
updatedHistory(currentHistory, example) ==
    slice(<<example>> \o uniqueHistory(currentHistory, example), HISTORY_LIMIT)

\* currentHistory.filter(item => item.timestamp !== timestamp)
withoutTimestamp(currentHistory, timestamp) ==
    SelectSeq(currentHistory, LAMBDA item : item.timestamp # timestamp)

----------------------------------------------------------------------------
(* Retrieval *)

calculateRelevanceScore(target, candidate) ==
    IF extractEmailAddress(target.sender) = extractEmailAddress(candidate.sender)
    THEN 1 ELSE 0

\* Mutant: slice(-limit): the oldest matches are kept instead of the newest.
getRelevantExamplesOldest(email, history, limit) ==
    LET matching == SelectSeq(history,
                      LAMBDA example : calculateRelevanceScore(email, example) > 0)
    IN SubSeq(matching, Len(matching) - Min(limit, Len(matching)) + 1, Len(matching))

getRelevantExamples(email, history, limit) ==
    IF Len(history) = 0
    THEN <<>>
    ELSE slice(SelectSeq(history,
                  LAMBDA example : calculateRelevanceScore(email, example) > 0),
               limit)

----------------------------------------------------------------------------
(* Classification *)

\* A property of the parsed response: undefined, or a string.
Field(defined, str) == [defined |-> defined, str |-> str]
Absent == Field(FALSE, "")
Str(s) == Field(TRUE, s)

\* a || b, for a an undefined or a string: "" is falsy too.
OrElse(a, b) == IF a.defined /\ a.str # "" THEN a.str ELSE b

\* What awaiting ai.models.generateContent gives: kind "reject" is a rejected
\* call (network or API failure); the other kinds are responses whose text is
\* undefined, "", no JSON, "null", or a JSON object with these properties.
Outcome(kind, category, reasoning) ==
    [kind |-> kind, category |-> category, reasoning |-> reasoning]

\* The model call has not settled, or was never made.
Unsettled == Outcome("none", Absent, Absent)
Rejects == Outcome("reject", Absent, Absent)
NoText == Outcome("undefined", Absent, Absent)
EmptyResponse == Outcome("empty", Absent, Absent)
Unparseable == Outcome("garbage", Absent, Absent)
NullResponse == Outcome("null", Absent, Absent)
Responds(category, reasoning) == Outcome("object", category, reasoning)

\* JSON.parse(response.text || "{}")
ParsedKind(outcome) ==
    CASE outcome.kind \in {"undefined", "empty"} -> "object"
      [] outcome.kind = "object" -> "object"
      [] outcome.kind = "null" -> "null"
      [] OTHER -> "throw"

\* The object classifyEmail resolves to.
ClassifyResult(category, reasoning, usedContext) ==
    [category |-> category, reasoning |-> reasoning, usedContext |-> usedContext]

\* usedContext: undefined
NoContext ==
    [present |-> FALSE, sender |-> <<>>, subject |-> 0, classification |-> UNCLASSIFIED]

\* usedContext: { sender, subject, classification } of the top example
ContextOf(example) ==
    [ present |-> TRUE, sender |-> example.sender, subject |-> example.subject,
      classification |-> example.userClassification ]

NoResult == ClassifyResult(UNCLASSIFIED, "", NoContext)

\* topExample = relevantExamples.length > 0 ? relevantExamples[0] : undefined,
\* and the usedContext built from it.
usedContext(relevantExamples) ==
    IF Len(relevantExamples) > 0 THEN ContextOf(relevantExamples[1]) ELSE NoContext

FALLBACK_REASONING == "AI could not determine reason."
ERROR_REASONING == "Error connecting to AI service."

\* The catch block of classifyEmail.
ServiceFailure == ClassifyResult(UNCLASSIFIED, ERROR_REASONING, NoContext)

\* The promise of one classifyEmail call: the arguments, what the call read
\* before its await (allHistory, relevantExamples), and how it settled.
Task(email, apiKey, userId, state, allHistory, relevantExamples, outcome, value, message) ==
    [ email |-> email, apiKey |-> apiKey, userId |-> userId, state |-> state,
      allHistory |-> allHistory, relevantExamples |-> relevantExamples,
      outcome |-> outcome, value |-> value, message |-> message ]

\* The message of the error a call outside the try block throws; the text is
\* the engine's, and holds no "401".
THROWN == "TypeError"

\* classifyEmail up to its await. The client is built and the log read and
\* filtered outside the try block: an exception there rejects the promise.
\* `constructed` tells whether new GoogleGenAI({ apiKey }) returned.
classifyEmailStart(email, apiKey, userId, constructed) ==
    LET allHistory == getStoredTrainingData
    IN IF ~constructed
       THEN Task(email, apiKey, userId, "rejected", Undefined, <<>>,
                 Unsettled, NoResult, THROWN)
       ELSE IF ~IsArray(allHistory)
       THEN Task(email, apiKey, userId, "rejected", allHistory, <<>>,
                 Unsettled, NoResult, THROWN)
       ELSE Task(email, apiKey, userId, "pending", allHistory,
                 getRelevantExamples(email, allHistory.items, CLASSIFY_LIMIT),
                 Unsettled, NoResult, "")

\* classifyEmail from its await on: the try block and its catch.
classifyEmailSettleUncaught(task, outcome) ==
    IF outcome.kind = "reject"
    THEN [task EXCEPT !.state = "rejected", !.outcome = outcome]
    ELSE [task EXCEPT !.state = "fulfilled", !.outcome = outcome,
                      !.value = ClassifyResult(OrElse(outcome.category, NOT_PERSONAL),
                                               OrElse(outcome.reasoning, FALLBACK_REASONING),
                                               usedContext(task.relevantExamples))]

classifyEmailSettle(task, outcome) ==
    LET value ==
          IF outcome.kind = "reject" \/ ParsedKind(outcome) \in {"throw", "null"}
          THEN ServiceFailure
          ELSE ClassifyResult(OrElse(outcome.category, NOT_PERSONAL),
                              OrElse(outcome.reasoning, FALLBACK_REASONING),
                              usedContext(task.relevantExamples))
    IN [task EXCEPT !.state = "fulfilled", !.outcome = outcome, !.value = value]

----------------------------------------------------------------------------
(* State *)

Call(op, email, category, userId, timestamp, limit, threw) ==
    [ op |-> op, email |-> email, category |-> category, userId |-> userId,
      timestamp |-> timestamp, limit |-> limit, threw |-> threw ]

NoEmail == Email(0, <<>>, 0)

NoCall == Call("none", NoEmail, UNCLASSIFIED, "", 0, 0, FALSE)

\* The first value of the clock; timestamps below it belong to the entries
\* a log already holds.
Epoch == HISTORY_LIMIT

MaxTime == Epoch + MaxTicks

\* The log after n reclassifications of n distinct messages at times 1..n:
\* each save prepends, none is a duplicate of another, so the k-th saved
\* stands at position n + 1 - k.
Prefill(n) ==
    [i \in 1..n |-> newExample(FillerEmail(n + 1 - i), NOT_PERSONAL, n + 1 - i)]

\* null, in a state that holds a string or null.
Null == "null"

\* No entry: the value of `written` before any reclassification.
NoEntry == newExample(NoEmail, UNCLASSIFIED, 0)

LoadIds == 1..MaxLoads

\* Where the record of the load that ended last is kept until loadEmails is
\* called again.
Ended == 0

\* A slot in which no loadEmails has run.
NoLoad ==
    [ pc |-> "idle", tasks |-> <<>>, accessToken |-> Null, userEmail |-> Null,
      isDemoMode |-> FALSE, geminiApiKey |-> Null, status |-> 0 ]

\* The credentials of the settings dialog, by their Gemini API key.
Credentials(geminiApiKey) == [geminiApiKey |-> geminiApiKey]

\* The slots of the handleMarkAllRead calls.
MarkIds == 1..MaxMarks

\* No handleMarkAllRead ran.
NotMarking == [state |-> "idle", accessToken |-> Null, category |-> Null, ids |-> {}]

\* A tab that is not calling the store.
IdleTab ==
    [ pc |-> "idle", op |-> "none", email |-> NoEmail, category |-> UNCLASSIFIED,
      timestamp |-> 0, currentHistory |-> Undefined ]

\* Nothing is in flight: no mark-all-read, no store call of another tab.
Quiet ==
    /\ tokenRequests = 0
    /\ profiles = EmptyBag
    /\ loads = [k \in LoadIds \cup {Ended} |-> NoLoad]
    /\ credentials = Credentials("AIza")
    /\ marking = [k \in MarkIds |-> NotMarking]
    /\ tabs = [t \in {1, 2} |-> IdleTab]
    /\ lastWriter = 0

\* App before anyone signed in: the useState initial values, no token stored.
AppInit ==
    /\ tasks = <<>>
    /\ emails = <<>>
    /\ trainingData = Array(<<>>)
    /\ isLoading = FALSE
    /\ error = Null
    /\ accessToken = Null
    /\ tokenStore = Null
    /\ written = NoEntry
    /\ userEmail = Null
    /\ isDemoMode = FALSE
    /\ trainingDataFor = Null
    /\ Quiet

\* The service is called directly: App and its promises stay as they are.
AppIdle == UNCHANGED <<tasks, appVars>>

\* A fresh browser profile, or one whose log is one entry short of the limit
\* (filled at times 1..Epoch-1, read when the clock shows MaxTime).
Init ==
    /\ \/ storage = Missing /\ now = Epoch
       \/ storage = JSONstringify(Prefill(HISTORY_LIMIT - 1)) /\ now = MaxTime
    /\ lastCall = NoCall
    /\ result = Undefined
    /\ AppInit

\* Any text localStorage may hold under the key, corrupt ones included.
InitPersisted ==
    /\ storage \in {Missing, EmptyText, Garbage, JsonNull, JsonObject,
                    JSONstringify(<<>>)}
    /\ now = Epoch
    /\ lastCall = NoCall
    /\ result = Undefined
    /\ AppInit

----------------------------------------------------------------------------
(* Operations *)

\* saveTrainingExample(email, newCategory, currentUserId), its Date.now()
\* returning t: the user id is an extra argument the function does not
\* declare.
saveTrainingExampleAt(email, correctCategory, userId, t) ==
    /\ LET currentHistory == getStoredTrainingData
       IN IF IsArray(currentHistory)
          THEN /\ storage' = JSONstringify(
                    updatedHistory(currentHistory.items,
                                   newExample(email, correctCategory, t)))
               /\ lastCall' = Call("save", email, correctCategory, userId, t, 0, FALSE)
          ELSE \* currentHistory.filter is not a function: TypeError
               /\ storage' = storage
               /\ lastCall' = Call("save", email, correctCategory, userId, t, 0, TRUE)
    /\ result' = Undefined

\* Date.now() returns the millisecond of the previous call or a later one:
\* two calls within one millisecond read the same value.
saveTrainingExample(email, correctCategory, userId) ==
    \E t \in {now, now + 1} :
        /\ t <= MaxTime
        /\ now' = t
        /\ saveTrainingExampleAt(email, correctCategory, userId, t)

\* deleteTrainingExample(timestamp, currentUserId)
deleteTrainingExample(timestamp, userId) ==
    /\ LET currentHistory == getStoredTrainingData
       IN IF IsArray(currentHistory)
          THEN /\ storage' = JSONstringify(withoutTimestamp(currentHistory.items, timestamp))
               /\ lastCall' = Call("delete", NoEmail, UNCLASSIFIED, userId, timestamp, 0, FALSE)
          ELSE /\ storage' = storage
               /\ lastCall' = Call("delete", NoEmail, UNCLASSIFIED, userId, timestamp, 0, TRUE)
    /\ result' = Undefined
    /\ now' = now

\* getStoredTrainingData(currentUserId)
loadTrainingData(userId) ==
    /\ result' = getStoredTrainingData
    /\ lastCall' = Call("load", NoEmail, UNCLASSIFIED, userId, 0, 0, FALSE)
    /\ UNCHANGED <<storage, now>>

\* The retrieval step of classifyEmail: getRelevantExamples(email, allHistory, limit)
retrieveExamples(email, limit) ==
    /\ LET allHistory == getStoredTrainingData
       IN IF IsArray(allHistory)
          THEN /\ result' = Array(getRelevantExamples(email, allHistory.items, limit))
               /\ lastCall' = Call("retrieve", email, UNCLASSIFIED, "", 0, limit, FALSE)
          ELSE \* history.length / history.filter on null or {}: TypeError
               /\ result' = Threw
               /\ lastCall' = Call("retrieve", email, UNCLASSIFIED, "", 0, limit, TRUE)
    /\ UNCHANGED <<storage, now>>

\* Timestamps a delete is asked for: one no entry carries (0) and those of
\* the entries saved since Epoch.
DeleteTimestamps == {0} \cup (Epoch..MaxTime)

\* The limit classifyEmail passes, and 1: the single top example.
Limits == {1, CLASSIFY_LIMIT}

Next ==
    \/ \E m \in Moves, u \in UserIds : saveTrainingExample(m[1], m[2], u) /\ AppIdle
    \/ \E t \in DeleteTimestamps, u \in UserIds : deleteTrainingExample(t, u) /\ AppIdle
    \/ \E u \in UserIds : loadTrainingData(u) /\ AppIdle
    \/ \E email \in Emails, limit \in Limits : retrieveExamples(email, limit) /\ AppIdle

Spec == Init /\ [][Next]_vars

SpecPersisted == InitPersisted /\ [][Next]_vars

----------------------------------------------------------------------------
(* classifyEmail called on any persisted text *)

\* The API keys a caller passes: none (credentials without the property) and
\* a key.
ApiKeys == {Null, "AIza"}

\* Whether new GoogleGenAI({ apiKey }) returns is the library's decision:
\* with a key it does, without one it may throw.
Constructs(apiKey) == IF apiKey = Null THEN BOOLEAN ELSE {TRUE}

\* The property values a response object may carry.
Categories == {Absent, Str(""), Str(PERSONAL), Str("Spam")}
Reasonings == {Absent, Str("Looks like a newsletter.")}

Outcomes ==
    {Rejects, NoText, EmptyResponse, Unparseable, NullResponse}
        \cup {Responds(c, r) : c \in Categories, r \in Reasonings}

\* The feedback given while classifications run.
ClassifyMoves ==
    { <<Email(1, BobX, 1), PERSONAL>>,
      <<Email(2, RobertX, 1), NOT_PERSONAL>>,
      <<Email(4, BobY, 1), PERSONAL>> }

InitClassify ==
    /\ storage \in {Missing, EmptyText, Garbage, JsonNull, JsonObject,
                    JSONstringify(<<>>)}
    /\ now = MaxTime
    /\ lastCall = NoCall
    /\ result = Undefined
    /\ AppInit

\* classifyEmail(email, apiKey, userId) is called: it runs to its await.
\* Only the promise of the latest call is kept.
callClassifyEmail(email, apiKey, userId) ==
    /\ \E constructed \in Constructs(apiKey) :
          tasks' = <<classifyEmailStart(email, apiKey, userId, constructed)>>
    /\ UNCHANGED <<storeVars, appVars>>

\* The model call of the i-th promise settles and classifyEmail returns.
generateContentSettles(i, outcome) ==
    /\ i \in 1..Len(tasks)
    /\ tasks[i].state = "pending"
    /\ tasks' = [tasks EXCEPT ![i] = classifyEmailSettle(@, outcome)]
    /\ UNCHANGED <<storeVars, appVars>>

NextClassify ==
    \/ \E email \in Emails, k \in ApiKeys, u \in UserIds : callClassifyEmail(email, k, u)
    \/ \E o \in Outcomes : generateContentSettles(1, o)
    \/ \E m \in ClassifyMoves, u \in UserIds : saveTrainingExample(m[1], m[2], u) /\ AppIdle

SpecClassify == InitClassify /\ [][NextClassify]_vars

----------------------------------------------------------------------------
(* App: loading, classifying and reclassifying the unread mail *)

\* The session: a signed-in user whose profile was fetched, with saved
\* credentials, outside demo mode.
ALICE == "alice@x.com"
TOKEN == "ya29"

currentUserId ==
    IF isDemoMode THEN "demo" ELSE IF userEmail # Null THEN userEmail ELSE "unknown"

\* An EmailData as fetchUnreadEmails returns it: Unclassified, the optional
\* properties absent (Null, NoContext, 0).
Fetched(msg) ==
    [ id |-> msg.id, sender |-> msg.sender, subject |-> msg.subject,
      snippet |-> msg.snippet, classification |-> UNCLASSIFIED,
      originalClassification |-> Null, reasoning |-> Null,
      contextExample |-> NoContext, reclassifiedAt |-> 0 ]

\* The properties of an EmailData the services read.
Message(email) == Email(email.id, email.sender, email.subject)

\* { ...email, classification, originalClassification, reasoning, contextExample }
Classified(email, value) ==
    [email EXCEPT !.classification = value.category,
                  !.originalClassification = value.category,
                  !.reasoning = value.reasoning,
                  !.contextExample = value.usedContext]

MANUAL_REASONING == "Manually reclassified by you."

\* { ...e, classification: newCategory, reclassifiedAt: Date.now(), reasoning }
reclassified(e, newCategory, at) ==
    [e EXCEPT !.classification = newCategory, !.reclassifiedAt = at,
              !.reasoning = MANUAL_REASONING]

\* The category the button of an EmailCard moves its message to.
Opposite(classification) ==
    IF classification = PERSONAL THEN NOT_PERSONAL ELSE PERSONAL

\* What the mail provider has unread: nothing, or two messages of one
\* address written in two ways.
Mailboxes == { <<>>, <<Email(1, BobX, 1), Email(3, BareX, 2)>> }

\* An error fetchUnreadEmails throws: its message, whether the message holds
\* "401", and the HTTP status of the list response it was thrown for.
FetchError(message, has401, status) ==
    [message |-> message, has401 |-> has401, status |-> status]

\* if (!listResponse.ok) throw new Error('Failed to list messages')
listFailure(status) == FetchError("Failed to list messages", FALSE, status)

UNAUTHORIZED == 401

\* The mail provider rejects the token, or is out of order.
FetchErrors == { listFailure(UNAUTHORIZED), listFailure(500) }

\* The outcomes of the model calls of a batch.
BatchOutcomes ==
    { Rejects, Unparseable, Responds(Str(PERSONAL), Str("Looks like a person.")) }

\* The effect on currentUserId has loaded the displayed reclassifications.
SignedIn ==
    /\ tasks = <<>>
    /\ emails = <<>>
    /\ trainingData = getStoredTrainingData
    /\ isLoading = FALSE
    /\ error = Null
    /\ accessToken = TOKEN
    /\ tokenStore = TOKEN
    /\ written = NoEntry
    /\ userEmail = ALICE
    /\ isDemoMode = FALSE
    /\ trainingDataFor = ALICE
    /\ Quiet

InitApp ==
    /\ storage = Missing
    /\ now = Epoch
    /\ lastCall = NoCall
    /\ result = Undefined
    /\ SignedIn

\* A signed-in App over a log the program did not write. The text "null" is
\* left out: with it the effect on currentUserId sets trainingData to null
\* and the render of the header throws on trainingData.length, which
\* unmounts App.
InitAppPersisted ==
    /\ storage \in {Missing, Garbage, JsonObject}
    /\ now = Epoch
    /\ lastCall = NoCall
    /\ result = Undefined
    /\ SignedIn

\* The slots in which no loadEmails is running.
FreeSlots(ls) == {k \in LoadIds : ls[k].pc = "idle"}

\* What a loadEmails closed over: useCallback(..., [accessToken, credentials,
\* isDemoMode, userEmail]).
Closure(token, creds, email, demo) ==
    [accessToken |-> token, credentials |-> creds, userEmail |-> email, isDemoMode |-> demo]

\* loadEmails() passes its early returns. Credentials not yet saved are
\* Credentials(Null).
Proceeds(c) ==
    \/ c.isDemoMode
    \/ /\ c.accessToken # Null
       /\ c.credentials # Credentials(Null)
       /\ c.userEmail # Null

\* loadEmails() of the closure c up to its first await, in demo mode to its
\* setTimeout, run in the lowest free slot.
started(ls, c) ==
    LET k == CHOOSE k \in FreeSlots(ls) : \A j \in FreeSlots(ls) : k <= j
    IN [ls EXCEPT ![Ended] = NoLoad,
                  ![k] = [ pc |-> IF c.isDemoMode THEN "timer" ELSE "fetching",
                              tasks |-> <<>>,
                              accessToken |-> c.accessToken,
                              userEmail |-> c.userEmail,
                              isDemoMode |-> c.isDemoMode,
                              geminiApiKey |-> c.credentials.geminiApiKey,
                              status |-> 0 ]]

\* The load in slot k ends, having made the classifyEmail calls `batch` and
\* seen the HTTP status `status`: its slot is free again.
ended(ls, k, batch, status) ==
    [ls EXCEPT ![k] = NoLoad,
               ![Ended] = [ls[k] EXCEPT !.pc = "idle", !.tasks = batch, !.status = status]]

\* loadEmails() is called once for each closure of `calls`, in order:
\* setIsLoading(true), setError(null), and the request or the timer. Nothing
\* prevents a call while another load is in flight; the slots bound how many
\* are.
loadEmailsCalled(calls) ==
    LET running == SelectSeq(calls, Proceeds)
    IN /\ Len(running) <= Cardinality(FreeSlots(loads))
       /\ loads' = IF Len(running) = 0 THEN loads
                   ELSE IF Len(running) = 1 THEN started(loads, running[1])
                   ELSE started(started(loads, running[1]), running[2])
       /\ IF running = <<>>
          THEN UNCHANGED <<isLoading, error>>
          ELSE isLoading' = TRUE /\ error' = Null

\* The effect on [accessToken, userEmail, loadEmails, isDemoMode] after a
\* render that changed one of them: if ((accessToken && userEmail) ||
\* isDemoMode) loadEmails().
loadEffect(c) ==
    IF (c.accessToken # Null /\ c.userEmail # Null) \/ c.isDemoMode THEN <<c>> ELSE <<>>

DEMO_EMAIL == "demo@example.com"

\* The loadEmails calls of the effects after a render that changed the access
\* token to `token`. The effect on the session calls loadEmails in demo mode
\* or when a user address is there; in demo mode the profile effect calls
\* setUserEmail('demo@example.com'), and when that changes the address the
\* render rebuilds loadEmails and the effect on it calls it again.
tokenEffects(token) ==
    IF isDemoMode
    THEN <<Closure(token, credentials, userEmail, TRUE)>>
         \o (IF userEmail = DEMO_EMAIL THEN <<>>
             ELSE <<Closure(token, credentials, DEMO_EMAIL, TRUE)>>)
    ELSE loadEffect(Closure(token, credentials, userEmail, FALSE))

\* The Refresh button, shown while there is a token or demo mode and never
\* disabled: loadEmails().
loadEmails ==
    /\ accessToken # Null \/ isDemoMode
    /\ Proceeds(Closure(accessToken, credentials, userEmail, isDemoMode))
    /\ loadEmailsCalled(<<Closure(accessToken, credentials, userEmail, isDemoMode)>>)
    /\ UNCHANGED <<storeVars, tasks, emails, trainingData, written, sessionVars, marking,
                   trainingDataFor, tabVars>>

\* handleSaveCredentials(creds) of the settings dialog: the new credentials
\* rebuild loadEmails, and the effect on it calls it.
handleSaveCredentials(creds) ==
    /\ credentials' = creds
    /\ loadEmailsCalled(loadEffect(Closure(accessToken, creds, userEmail, isDemoMode)))
    /\ UNCHANGED <<storeVars, tasks, emails, trainingData, written, accessToken,
                   tokenStore, identityVars, marking, trainingDataFor, tabVars>>

\* fetchUnreadEmails of the load in slot k resolves with `mailbox`: an empty
\* list ends the load; a list is displayed unclassified and classifyEmail is
\* called on each message in order, every call running to its await. A call
\* that threw rejects Promise.all at once, and the catch and finally blocks
\* run.
fetchResolves(k, mailbox) ==
    /\ loads[k].pc = "fetching"
    /\ IF Len(mailbox) = 0
       THEN /\ emails' = <<>>
            /\ isLoading' = FALSE
            /\ loads' = ended(loads, k, <<>>, 200)
            /\ UNCHANGED error
       ELSE LET calls == [i \in 1..Len(mailbox) |->
                              classifyEmailStart(mailbox[i], loads[k].geminiApiKey,
                                                 loads[k].userEmail, TRUE)]
                thrown == {i \in 1..Len(mailbox) : calls[i].state = "rejected"}
            IN /\ emails' = [i \in 1..Len(mailbox) |-> Fetched(mailbox[i])]
               /\ IF thrown # {}
                  THEN /\ error' = calls[CHOOSE i \in thrown :
                                              \A j \in thrown : i <= j].message
                       /\ isLoading' = FALSE
                       /\ loads' = ended(loads, k, calls, 200)
                  ELSE /\ loads' = [loads EXCEPT ![k].pc = "classifying",
                                                 ![k].status = 200, ![k].tasks = calls]
                       /\ UNCHANGED <<isLoading, error>>
    /\ UNCHANGED <<storeVars, tasks, trainingData, written, sessionVars, marking,
                   trainingDataFor, tabVars>>

\* fetchUnreadEmails of the load in slot k rejects: the catch and finally
\* blocks of loadEmails. When the catch block resets a token that was set,
\* the effects on the token run after the render: in demo mode they call
\* loadEmails, which sets the loading flag and clears the error again.
fetchRejects(k, err) ==
    /\ loads[k].pc = "fetching"
    /\ IF err.has401
       THEN LET calls == IF accessToken = Null THEN <<>> ELSE tokenEffects(Null)
            IN /\ accessToken' = Null
               /\ tokenStore' = Null
               /\ userEmail' = IF accessToken # Null /\ isDemoMode
                               THEN DEMO_EMAIL ELSE userEmail
               /\ Len(calls) <= Cardinality(FreeSlots(ended(loads, k, <<>>, err.status)))
               /\ loads' = IF Len(calls) = 0 THEN ended(loads, k, <<>>, err.status)
                           ELSE IF Len(calls) = 1
                           THEN started(ended(loads, k, <<>>, err.status), calls[1])
                           ELSE started(started(ended(loads, k, <<>>, err.status),
                                                calls[1]), calls[2])
               /\ IF calls = <<>>
                  THEN error' = "Session expired. Please reconnect." /\ isLoading' = FALSE
                  ELSE error' = Null /\ isLoading' = TRUE
       ELSE /\ error' = (IF err.message # "" THEN err.message ELSE "Failed to load emails")
            /\ isLoading' = FALSE
            /\ loads' = ended(loads, k, <<>>, err.status)
            /\ UNCHANGED <<accessToken, tokenStore, userEmail>>
    /\ UNCHANGED <<storeVars, tasks, emails, trainingData, written, credentials,
                   isDemoMode, tokenRequests, profiles, marking, trainingDataFor,
                   tabVars>>

\* The model call of the i-th message of the load in slot k settles; when it
\* was the last one pending, Promise.all resolves and the classified list is
\* displayed.
taskSettles(k, i, outcome) ==
    /\ loads[k].pc = "classifying"
    /\ i \in 1..Len(loads[k].tasks)
    /\ loads[k].tasks[i].state = "pending"
    /\ LET settled == [loads[k].tasks EXCEPT ![i] = classifyEmailSettle(@, outcome)]
       IN IF \A j \in 1..Len(settled) : settled[j].state = "fulfilled"
          THEN /\ emails' = [j \in 1..Len(settled) |->
                               Classified(Fetched(settled[j].email), settled[j].value)]
               /\ isLoading' = FALSE
               /\ loads' = ended(loads, k, settled, loads[k].status)
          ELSE /\ loads' = [loads EXCEPT ![k].tasks = settled]
               /\ UNCHANGED <<emails, isLoading>>
    /\ UNCHANGED <<storeVars, tasks, trainingData, error, written, sessionVars,
                   marking, trainingDataFor, tabVars>>

\* handleMoveEmail(email, newCategory) from the card of a displayed message.
\* The clock is read twice, by the save and by the updater of setEmails, which
\* React runs at once, before the save, or at the render after the handler,
\* whether the save returned or threw.
handleMoveEmail(email, newCategory) ==
    /\ accessToken # Null \/ isDemoMode
    /\ \E first \in {now, now + 1} : \E second \in {first, first + 1} :
          /\ second <= MaxTime
          /\ now' = second
          /\ \E t \in {first, second} :
                /\ saveTrainingExampleAt(Message(email), newCategory, currentUserId, t)
                /\ emails' = [i \in 1..Len(emails) |->
                                 IF emails[i].id # email.id
                                 THEN emails[i]
                                 ELSE reclassified(emails[i], newCategory,
                                                   IF t = first THEN second ELSE first)]
    /\ IF lastCall'.threw
       THEN UNCHANGED <<trainingData, written, trainingDataFor>>
       ELSE /\ trainingData' = getStoredTrainingData'
            /\ trainingDataFor' = currentUserId
            /\ written' = newExample(Message(email), newCategory, lastCall'.timestamp)
    /\ UNCHANGED <<tasks, isLoading, error, loads, sessionVars, marking, tabVars>>

\* handleDeleteTrainingExample(timestamp) from a displayed reclassification.
handleDeleteTrainingExample(timestamp) ==
    /\ accessToken # Null \/ isDemoMode
    /\ deleteTrainingExample(timestamp, currentUserId)
    /\ IF lastCall'.threw
       THEN UNCHANGED trainingData
       ELSE trainingData' = Array(withoutTimestamp(trainingData.items, timestamp))
    /\ UNCHANGED <<tasks, emails, isLoading, error, loads, written, sessionVars,
                   marking, trainingDataFor, tabVars>>

\* The keys the settings dialog is saved with.
GeminiApiKeys == {"AIza", "AIza2"}

\* A signed-in session: the user refreshes, saves the settings dialog with
\* the key as it is, reclassifies the first displayed message and deletes
\* reclassifications, while the loads run.
NextApp ==
    \/ loadEmails
    \/ handleSaveCredentials(Credentials(credentials.geminiApiKey))
    \/ \E k \in LoadIds, mailbox \in Mailboxes : fetchResolves(k, mailbox)
    \/ \E k \in LoadIds, err \in FetchErrors : fetchRejects(k, err)
    \/ \E k \in LoadIds : \E i \in 1..Len(loads[k].tasks), o \in BatchOutcomes :
          taskSettles(k, i, o)
    \/ /\ emails # <<>>
       /\ handleMoveEmail(emails[1], Opposite(emails[1].classification))
    \/ \E i \in 1..Len(trainingData.items) :
          handleDeleteTrainingExample(trainingData.items[i].timestamp)

SpecApp == InitApp /\ [][NextApp]_vars

SpecAppPersisted == InitAppPersisted /\ [][NextApp]_vars

\* The answers of the model to a reclassified sender: a category, or a text
\* that is no JSON.
ReclassifyOutcomes ==
    { Unparseable, Responds(Str(PERSONAL), Str("Looks like a person.")) }

\* A signed-in session whose mailbox holds two messages of one address: the
\* user reclassifies either of them, deletes reclassifications, and
\* refreshes when no load is in flight.
NextReclassify ==
    \/ (\A k \in LoadIds : loads[k].pc = "idle") /\ loadEmails
    \/ \E k \in LoadIds : fetchResolves(k, <<Email(1, BobX, 1), Email(3, BareX, 2)>>)
    \/ \E k \in LoadIds : \E i \in 1..Len(loads[k].tasks), o \in ReclassifyOutcomes :
          taskSettles(k, i, o)
    \/ \E i \in 1..Len(emails) :
          handleMoveEmail(emails[i], Opposite(emails[i].classification))
    \/ \E i \in 1..Len(trainingData.items) :
          handleDeleteTrainingExample(trainingData.items[i].timestamp)

SpecReclassify == InitApp /\ [][NextReclassify]_vars

(***************************************************************************)
(* The session: sign-in, the profile request, sign-out and demo mode.      *)
(* The active tab is not part of the state: switching tabs reloads the     *)
(* displayed reclassifications only when the user is known, and then the   *)
(* list already equals the stored log.                                     *)
(***************************************************************************)

\* The access tokens of alice and of bob.
Tokens == {TOKEN, "ya29.bob"}

\* The account a Google access token was issued for: profile.email of
\* getUserProfile(token).
getUserProfile(token) == IF token = TOKEN THEN ALICE ELSE "bob@x.com"

MockEmail(id, sender, subject, classification, reasoning, contextExample) ==
    [ id |-> id, sender |-> sender, subject |-> subject, snippet |-> id,
      classification |-> classification,
      originalClassification |-> classification, reasoning |-> reasoning,
      contextExample |-> contextExample, reclassifiedAt |-> 0 ]

\* getMockEmails(): mock-1 .. mock-5 are the ids 201 .. 205, their subjects
\* 201 .. 205, and the subjects of the two context examples 211 and 212; the
\* senders are character sequences.
getMockEmails ==
    LET ALICE_SMITH ==
            <<"A", "l", "i", "c", "e", " ", "S", "m", "i", "t", "h", " ", "<", "a",
            "l", "i", "c", "e", "@", "e", "x", "a", "m", "p", "l", "e", ".", "c",
            "o", "m", ">">>
        ANALYTICS_BOT ==
            <<"A", "n", "a", "l", "y", "t", "i", "c", "s", " ", "B", "o", "t", " ",
            "<", "n", "o", "r", "e", "p", "l", "y", "@", "a", "n", "a", "l", "y",
            "t", "i", "c", "s", ".", "c", "o", "m", ">">>
        FASHION_STORE ==
            <<"F", "a", "s", "h", "i", "o", "n", "S", "t", "o", "r", "e", " ", "<",
            "p", "r", "o", "m", "o", "@", "f", "a", "s", "h", "i", "o", "n", "s",
            "t", "o", "r", "e", ".", "c", "o", "m", ">">>
        BOB_JONES ==
            <<"B", "o", "b", " ", "J", "o", "n", "e", "s", " ", "<", "b", "o", "b",
            ".", "j", "o", "n", "e", "s", "@", "w", "o", "r", "k", "p", "l", "a",
            "c", "e", ".", "c", "o", "m", ">">>
        AMAZON ==
            <<"A", "m", "a", "z", "o", "n", " ", "<", "s", "h", "i", "p", "m", "e",
            "n", "t", "@", "a", "m", "a", "z", "o", "n", ".", "c", "o", "m", ">">>
    IN << MockEmail(201, ALICE_SMITH, 201, PERSONAL,
               "Direct correspondence from a specific person regarding a meeting.",
               [present |-> TRUE, sender |-> ALICE_SMITH, subject |-> 211,
                classification |-> PERSONAL]),
           MockEmail(202, ANALYTICS_BOT, 202, NOT_PERSONAL,
               "Automated notification from a bot.",
               [present |-> TRUE, sender |-> ANALYTICS_BOT, subject |-> 212,
                classification |-> NOT_PERSONAL]),
           MockEmail(203, FASHION_STORE, 203, NOT_PERSONAL,
               "Marketing email sent to a broad list.", NoContext),
           MockEmail(204, BOB_JONES, 204, PERSONAL,
               "Work related request from a colleague.", NoContext),
           MockEmail(205, AMAZON, 205, NOT_PERSONAL,
               "Transactional update.", NoContext) >>

\* The effect on [activeTab, currentUserId]: when the user id changed to a
\* known one, the displayed reclassifications are read from the log.
trainingDataEffect ==
    IF currentUserId' # currentUserId /\ currentUserId' # "unknown"
    THEN /\ trainingData' = getStoredTrainingData
         /\ trainingDataFor' = currentUserId'
    ELSE UNCHANGED <<trainingData, trainingDataFor>>

\* handleLogin(), from the Connect buttons, shown while there is no token
\* and no demo: tokenClient.requestAccessToken(). The token client calls
\* back later.
handleLogin ==
    /\ accessToken = Null
    /\ ~isDemoMode
    /\ tokenRequests < MaxRequests
    /\ tokenRequests' = tokenRequests + 1
    /\ UNCHANGED <<storeVars, tasks, emails, trainingData, isLoading, error, loads,
                   written, accessToken, tokenStore, credentials, userEmail,
                   isDemoMode, profiles, marking, trainingDataFor, tabVars>>

\* The token client's callback with a token and no error, whatever the
\* session is by now: the token is stored and set. When the token of the
\* state changed, the effect on [accessToken, isDemoMode] requests its
\* profile outside demo mode and sets the demo address in demo mode, and the
\* effect on the session calls loadEmails.
tokenCallback(token) ==
    /\ tokenRequests > 0
    /\ tokenRequests' = tokenRequests - 1
    /\ tokenStore' = token
    /\ accessToken' = token
    /\ IF token = accessToken
       THEN /\ UNCHANGED <<profiles, userEmail>>
            /\ loadEmailsCalled(<<>>)
       ELSE /\ IF isDemoMode
               THEN /\ userEmail' = DEMO_EMAIL
                    /\ UNCHANGED profiles
               ELSE /\ CopiesIn(token, profiles) < MaxRequests
                    /\ profiles' = profiles (+) SetToBag({token})
                    /\ UNCHANGED userEmail
            /\ loadEmailsCalled(tokenEffects(token))
    /\ UNCHANGED <<storeVars, tasks, emails, trainingData, written, isDemoMode,
                   credentials, marking, trainingDataFor, tabVars>>

\* `Google Auth Error: ${tokenResponse.error}. Check your Authorized
\* Origins.` for the error codes of the model.
authError(err) ==
    CASE err = "popup_closed" ->
            "Google Auth Error: popup_closed. Check your Authorized Origins."
      [] err = "access_denied" ->
            "Google Auth Error: access_denied. Check your Authorized Origins."

\* The token client's callback with tokenResponse.error: setError, return.
tokenCallbackError(err) ==
    /\ tokenRequests > 0
    /\ tokenRequests' = tokenRequests - 1
    /\ error' = authError(err)
    /\ UNCHANGED <<storeVars, tasks, emails, trainingData, isLoading, loads,
                   written, accessToken, tokenStore, credentials, userEmail,
                   isDemoMode, profiles, marking, trainingDataFor, tabVars>>

\* One getUserProfile(token) call resolves: setUserEmail(profile.email),
\* whatever the token of the session is by now; a changed address runs the
\* effects on currentUserId and on the session.
profileResolves(token) ==
    /\ BagIn(token, profiles)
    /\ profiles' = profiles (-) SetToBag({token})
    /\ userEmail' = getUserProfile(token)
    /\ UNCHANGED <<isDemoMode, tokenRequests>>
    /\ trainingDataEffect
    /\ loadEmailsCalled(IF userEmail' = userEmail THEN <<>>
                        ELSE loadEffect(Closure(accessToken, credentials, userEmail',
                                                isDemoMode)))
    /\ UNCHANGED <<storeVars, tasks, emails, written, accessToken, tokenStore,
                   credentials, marking, tabVars>>

\* One getUserProfile(token) call rejects: the catch only logs.
profileRejects(token) ==
    /\ BagIn(token, profiles)
    /\ profiles' = profiles (-) SetToBag({token})
    /\ UNCHANGED <<storeVars, tasks, emails, trainingData, isLoading, error, loads,
                   written, accessToken, tokenStore, credentials, userEmail,
                   isDemoMode, tokenRequests, marking, trainingDataFor, tabVars>>

\* handleLogout(): nothing in flight is cancelled, and trainingData,
\* isLoading and error are left as they are.
handleLogout ==
    /\ accessToken # Null \/ isDemoMode
    /\ accessToken' = Null
    /\ userEmail' = Null
    /\ tokenStore' = Null
    /\ emails' = <<>>
    /\ isDemoMode' = FALSE
    /\ UNCHANGED <<storeVars, tasks, trainingData, isLoading, error, loads, written,
                   tokenRequests, profiles, credentials, marking, trainingDataFor,
                   tabVars>>

\* handleStartDemo(), from the landing screen or the settings dialog, and the
\* effects it triggers. After the render with the demo flag the effect on
\* the session calls loadEmails and the profile effect calls
\* setUserEmail('demo@example.com'); the render with the new address
\* rebuilds loadEmails, and the effect on it calls it again. The displayed
\* reclassifications are read for 'demo'.
handleStartDemo ==
    /\ ~isDemoMode
    /\ isDemoMode' = TRUE
    /\ userEmail' = DEMO_EMAIL
    /\ trainingDataEffect
    /\ loadEmailsCalled(
          <<Closure(accessToken, credentials, userEmail, TRUE)>>
          \o (IF userEmail' = userEmail THEN <<>>
              ELSE <<Closure(accessToken, credentials, userEmail', TRUE)>>))
    /\ UNCHANGED <<storeVars, tasks, emails, written, accessToken, tokenStore,
                   credentials, tokenRequests, profiles, marking, tabVars>>

\* The timer of the demo load in slot k fires: setEmails(getMockEmails()),
\* setIsLoading(false).
timerFires(k) ==
    /\ loads[k].pc = "timer"
    /\ emails' = getMockEmails
    /\ isLoading' = FALSE
    /\ loads' = ended(loads, k, <<>>, loads[k].status)
    /\ UNCHANGED <<storeVars, tasks, trainingData, error, written, sessionVars,
                   marking, trainingDataFor, tabVars>>

(***************************************************************************)
(* The two columns and mark-all-read.                                      *)
(***************************************************************************)

\* The filter of a column, which is also the filter of handleMarkAllRead.
inColumn(e, category) ==
    IF category = PERSONAL
    THEN e.classification = PERSONAL
    ELSE e.classification = NOT_PERSONAL \/ e.classification = UNCLASSIFIED

personalEmails == SelectSeq(emails, LAMBDA e : inColumn(e, PERSONAL))
notPersonalEmails == SelectSeq(emails, LAMBDA e : inColumn(e, NOT_PERSONAL))

Ids(list) == { list[i].id : i \in 1..Len(list) }

emailsToMarkAnyColumn(list, category) == list

emailsToMark(list, category) == SelectSeq(list, LAMBDA e : inColumn(e, category))

\* prev.filter(e => !idsToRemove.has(e.id))
withoutIds(list, idsToRemove) == SelectSeq(list, LAMBDA e : e.id \notin idsToRemove)

Marking(state, category) ==
    [ state |-> state, accessToken |-> accessToken, category |-> category,
      ids |-> Ids(emailsToMark(emails, category)) ]

\* handleMarkAllRead(category) up to its await, with the user's answer to
\* confirm(). The button is shown while the column is not empty and is never
\* disabled. Outside demo mode the provider is called; in demo mode the
\* emails are removed at once. The call is recorded in the lowest slot in
\* which no provider call is in flight, and the records of the calls that
\* ended before are dropped; the slots bound how many calls are in flight.
handleMarkAllRead(category, confirmed) ==
    /\ accessToken # Null \/ isDemoMode
    /\ emailsToMark(emails, category) # <<>>
    /\ \E k \in MarkIds :
          /\ marking[k].state # "calling"
          /\ \A j \in MarkIds : marking[j].state # "calling" => k <= j
          /\ LET recorded(state) ==
                     [j \in MarkIds |->
                         IF j = k THEN Marking(state, category)
                         ELSE IF marking[j].state = "calling" THEN marking[j]
                         ELSE NotMarking]
             IN IF ~confirmed
                THEN /\ marking' = recorded("declined")
                     /\ UNCHANGED emails
                ELSE IF ~isDemoMode
                     THEN /\ marking' = recorded("calling")
                          /\ UNCHANGED emails
                     ELSE /\ marking' = recorded("demo")
                          /\ emails' = withoutIds(emails,
                                                  Ids(emailsToMark(emails, category)))
    /\ UNCHANGED <<storeVars, tasks, trainingData, isLoading, error, loads, written,
                   sessionVars, trainingDataFor, tabVars>>

\* markEmailsAsRead of the call in slot k settles: response.ok, or false for
\* a thrown error. On success the marked ids are removed from the list as it
\* is by then.
markSettles(k, success) ==
    /\ marking[k].state = "calling"
    /\ IF success
       THEN /\ marking' = [marking EXCEPT ![k].state = "marked"]
            /\ emails' = withoutIds(emails, marking[k].ids)
       ELSE /\ marking' = [marking EXCEPT ![k].state = "failed"]
            /\ UNCHANGED emails
    /\ UNCHANGED <<storeVars, tasks, trainingData, isLoading, error, loads, written,
                   sessionVars, trainingDataFor, tabVars>>

Columns == {PERSONAL, NOT_PERSONAL}

\* The model call fails, or answers with Personal or with a category of its
\* own.
ColumnOutcomes ==
    { Rejects, Responds(Str(PERSONAL), Str("Looks like a person.")),
      Responds(Str("Spam"), Absent) }

\* A signed-in session with its columns and mark-all-read.
NextMark ==
    \/ loadEmails
    \/ \E k \in LoadIds, mailbox \in Mailboxes : fetchResolves(k, mailbox)
    \/ \E k \in LoadIds : \E i \in 1..Len(loads[k].tasks), o \in ColumnOutcomes :
          taskSettles(k, i, o)
    \/ \E category \in Columns, confirmed \in BOOLEAN :
          handleMarkAllRead(category, confirmed)
    \/ \E k \in MarkIds, success \in BOOLEAN : markSettles(k, success)

SpecMark == InitApp /\ [][NextMark]_vars

(***************************************************************************)
(* Sessions that begin and end: from the landing screen, through sign-in   *)
(* as either account or demo mode, to sign-out and back.                   *)
(***************************************************************************)

InitSession ==
    /\ storage = Missing
    /\ now = Epoch
    /\ lastCall = NoCall
    /\ result = Undefined
    /\ AppInit

\* The errors of a token response.
TokenErrors == {"popup_closed", "access_denied"}

signsInAndOut ==
    \/ handleLogin
    \/ \E token \in Tokens : tokenCallback(token)
    \/ \E err \in TokenErrors : tokenCallbackError(err)
    \/ \E token \in Tokens : profileResolves(token)
    \/ \E token \in Tokens : profileRejects(token)
    \/ handleLogout
    \/ handleStartDemo

\* Sessions that load mail.
NextSession ==
    \/ signsInAndOut
    \/ loadEmails
    \/ \E k \in LoadIds : timerFires(k)
    \/ \E k \in LoadIds : fetchResolves(k, <<Email(1, BobX, 1)>>)
    \/ \E k \in LoadIds, err \in FetchErrors : fetchRejects(k, err)
    \/ \E k \in LoadIds : \E i \in 1..Len(loads[k].tasks),
          o \in { Rejects, Responds(Str(PERSONAL), Str("Looks like a person.")) } :
          taskSettles(k, i, o)

SpecSession == InitSession /\ [][NextSession]_vars

\* Sessions of the demo and of alice in which the user reclassifies demo mail
\* and deletes reclassifications; the mailbox of alice is empty.
NextFeedback ==
    \/ handleLogin
    \/ tokenCallback(TOKEN)
    \/ profileResolves(TOKEN)
    \/ profileRejects(TOKEN)
    \/ handleLogout
    \/ handleStartDemo
    \/ loadEmails
    \/ \E k \in LoadIds : timerFires(k)
    \/ \E k \in LoadIds : fetchResolves(k, <<>>)
    \/ /\ emails # <<>>
       /\ handleMoveEmail(emails[1], Opposite(emails[1].classification))
    \/ /\ trainingData.items # <<>>
       /\ handleDeleteTrainingExample(trainingData.items[1].timestamp)

SpecFeedback == InitSession /\ [][NextFeedback]_vars

(***************************************************************************)
(* Loads whose calls return: the mail provider answers every list request, *)
(* the model service settles every classification call, and the timer of a *)
(* demo load fires.                                                        *)
(***************************************************************************)

fetchSettles(k) ==
    \/ \E mailbox \in Mailboxes : fetchResolves(k, mailbox)
    \/ \E err \in FetchErrors : fetchRejects(k, err)

generateContentReturns(k) ==
    \E i \in 1..Len(loads[k].tasks), o \in BatchOutcomes : taskSettles(k, i, o)

NextLoads ==
    \/ loadEmails
    \/ \E key \in GeminiApiKeys : handleSaveCredentials(Credentials(key))
    \/ \E k \in LoadIds : fetchSettles(k)
    \/ \E k \in LoadIds : generateContentReturns(k)
    \/ handleStartDemo
    \/ \E k \in LoadIds : timerFires(k)

SpecLoads ==
    /\ InitAppPersisted
    /\ [][NextLoads]_vars
    /\ \A k \in LoadIds :
          /\ WF_vars(fetchSettles(k))
          /\ WF_vars(generateContentReturns(k))
          /\ WF_vars(timerFires(k))

----------------------------------------------------------------------------
(* Two tabs writing one log *)

\* Every tab runs its own script on the localStorage they share: the getItem
\* and the setItem of one store call are two steps, and a step of the other
\* tab may come between them.
TabIds == {1, 2}

\* Mutant: the log is read again when it is written.
tabHistoryReRead(tab) == getStoredTrainingData.items

\* The log the call of the tab read.
tabHistory(tab) == tab.currentHistory.items

\* The updatedHistory the call of the tab hands to setItem.
tabUpdatedHistory(tab) ==
    IF tab.op = "save"
    THEN updatedHistory(tabHistory(tab),
                        newExample(tab.email, tab.category, tab.timestamp))
    ELSE withoutTimestamp(tabHistory(tab), tab.timestamp)

\* saveTrainingExample in tab t, to its setItem: the log and the clock are read.
tabReadsToSave(t, email, correctCategory) ==
    /\ tabs[t].pc = "idle"
    /\ \E at \in {now, now + 1} :
          /\ at <= MaxTime
          /\ now' = at
          /\ tabs' = [tabs EXCEPT ![t] =
                        [ pc |-> "read", op |-> "save", email |-> email,
                          category |-> correctCategory, timestamp |-> at,
                          currentHistory |-> getStoredTrainingData ]]
    /\ UNCHANGED <<storage, lastCall, result, lastWriter, tasks, emails,
                   trainingData, isLoading, error, loads, written, marking,
                   trainingDataFor, sessionVars>>

\* deleteTrainingExample in tab t, to its setItem.
tabReadsToDelete(t, timestamp) ==
    /\ tabs[t].pc = "idle"
    /\ tabs' = [tabs EXCEPT ![t] =
                  [ pc |-> "read", op |-> "delete", email |-> NoEmail,
                    category |-> UNCLASSIFIED, timestamp |-> timestamp,
                    currentHistory |-> getStoredTrainingData ]]
    /\ UNCHANGED <<storeVars, lastWriter, tasks, emails, trainingData, isLoading,
                   error, loads, written, marking, trainingDataFor, sessionVars>>

\* The setItem of the call tab t is making.
tabWrites(t) ==
    /\ tabs[t].pc = "read"
    /\ IsArray(tabs[t].currentHistory)
    /\ storage' = JSONstringify(tabUpdatedHistory(tabs[t]))
    /\ tabs' = [tabs EXCEPT ![t].pc = "done"]
    /\ lastWriter' = t
    /\ UNCHANGED <<now, lastCall, result, tasks, emails, trainingData, isLoading,
                   error, loads, written, marking, trainingDataFor, sessionVars>>

NextTabs ==
    \/ \E t \in TabIds, m \in Moves : tabReadsToSave(t, m[1], m[2])
    \/ \E t \in TabIds, at \in DeleteTimestamps : tabReadsToDelete(t, at)
    \/ \E t \in TabIds : tabWrites(t)

SpecTabs == Init /\ [][NextTabs]_vars

----------------------------------------------------------------------------
(* What the claims speak about *)

\* The log load returns: getStoredTrainingData(userId), the user id being an
\* argument the function does not take.
LoadFor(userId) == getStoredTrainingData

\* The entries of the log load returns (none when it is no array).
LoadedLog == IF IsArray(getStoredTrainingData) THEN getStoredTrainingData.items ELSE <<>>

\* The examples classifying `email` for `userId` would retrieve.
RetrievedFor(email, userId) ==
    IF IsArray(LoadFor(userId))
    THEN Array(getRelevantExamples(email, LoadFor(userId).items, CLASSIFY_LIMIT))
    ELSE Threw

Saved == lastCall.op = "save" /\ ~lastCall.threw

\* The entry the last save built.
SavedExample == newExample(lastCall.email, lastCall.category, lastCall.timestamp)

\* The normalized sender the specification defines, written out for each
\* sender of the model: the bracketed address, or the whole string, lowercased.
NormalizedSender(sender) ==
    CASE sender = BobX -> <<"é", "@", "x">>
      [] sender = RobertX -> <<"é", "@", "x">>
      [] sender = BareX -> <<"é", "@", "x">>
      [] sender = BobY -> <<"é", "@", "y">>
      [] sender = UnaccentedX -> <<"e", "@", "x">>
      [] sender = FillerSender -> <<"n", "@", "z">>

SameKey(a, b) ==
    NormalizedSender(a.sender) = NormalizedSender(b.sender) /\ a.subject = b.subject

\* Indices of the entries of log with e's subject and e's sender string.
RawDuplicates(log, e) ==
    {i \in 1..Len(log) : log[i].subject = e.subject /\ log[i].sender = e.sender}

Carries(log, timestamp) == \E i \in 1..Len(log) : log[i].timestamp = timestamp

Contains(log, e) == \E i \in 1..Len(log) : log[i] = e

\* log without its i-th entry.
RemoveAt(log, i) == SubSeq(log, 1, i - 1) \o SubSeq(log, i + 1, Len(log))

----------------------------------------------------------------------------
(* C1: per-user isolation. A save or delete made with user id A leaves the  *)
(* log load(B) returns, and the examples retrieved when classifying any     *)
(* message for B, unchanged for every other user id B.                      *)
C1_Isolation ==
    [][ lastCall'.op \in {"save", "delete"} =>
          \A u \in UserIds \ {lastCall'.userId} :
              /\ LoadFor(u)' = LoadFor(u)
              /\ \A email \in Emails : RetrievedFor(email, u)' = RetrievedFor(email, u)
      ]_vars

(* C2: a feedback log reachable by saves and deletes holds at most 100      *)
(* entries.                                                                 *)
C2_AtMost100 == IsArray(getStoredTrainingData) /\ Len(LoadedLog) <= 100

\* A save onto a full log: the log holds 100 entries and the oldest filler
\* (timestamp 1) has been pushed out.
C2_Witness ==
    /\ Saved
    /\ Len(LoadedLog) = 100
    /\ ~Carries(LoadedLog, 1)

(* C3: a log reachable by saves and deletes holds at most one entry per     *)
(* (normalized sender, subject) pair.                                       *)
C3_OnePerNormalizedKey ==
    \A i, j \in 1..Len(LoadedLog) :
        SameKey(LoadedLog[i], LoadedLog[j]) => i = j

(* C4: after a save, load returns a log whose first element is the entry    *)
(* just saved (subject, sender, snippet of the message, the corrected       *)
(* category) and whose length is min(100, priorLength - duplicatesRemoved   *)
(* + 1), the duplicates being the prior entries the save removed.           *)
C4_SaveThenLoad ==
    [][ (lastCall'.op = "save" /\ ~lastCall'.threw) =>
          LET prior == LoadedLog
              post == LoadFor(lastCall'.userId)'
              email == lastCall'.email
              duplicatesRemoved == Cardinality(RawDuplicates(prior, email))
          IN /\ IsArray(post)
             /\ Len(post.items) = Min(100, Len(prior) - duplicatesRemoved + 1)
             /\ post.items[1].subject = email.subject
             /\ post.items[1].sender = email.sender
             /\ post.items[1].snippet = email.snippet
             /\ post.items[1].userClassification = lastCall'.category
             /\ post.items[1].timestamp = lastCall'.timestamp
      ]_vars

\* Message 1 has been saved as Not Personal onto a log that holds an entry
\* of another sender: the saved entry is the head, the other one follows.
C4_Witness ==
    /\ Saved
    /\ Len(LoadedLog) >= 2
    /\ LoadedLog[1] = SavedExample
    /\ lastCall.email.id = 1
    /\ lastCall.category = NOT_PERSONAL
    /\ \E i \in 2..Len(LoadedLog) : LoadedLog[i].sender = BobY

(* C5: after saving a message, the log holds exactly one entry with that    *)
(* message's normalized sender and subject, and it bears the classification *)
(* and timestamp of that (latest) save.                                     *)
C5_LatestSaveWins ==
    Saved =>
        LET same == {i \in 1..Len(LoadedLog) : SameKey(LoadedLog[i], SavedExample)}
        IN /\ Cardinality(same) = 1
           /\ \A i \in same :
                 /\ LoadedLog[i].userClassification = lastCall.category
                 /\ LoadedLog[i].timestamp = lastCall.timestamp

(* C6: a save of a new key onto a log of 100 entries leaves exactly 100     *)
(* entries: the new entry followed by the first 99 prior entries in their   *)
(* order; the entry left out is the last one, which carries the oldest      *)
(* timestamp of the prior log.                                              *)
C6_EvictsOldest ==
    [][ ( /\ lastCall'.op = "save" /\ ~lastCall'.threw
          /\ Len(LoadedLog) = 100
          /\ RawDuplicates(LoadedLog, lastCall'.email) = {} ) =>
          LET prior == LoadedLog
              post == LoadedLog'
              new == newExample(lastCall'.email, lastCall'.category, lastCall'.timestamp)
          IN /\ Len(post) = 100
             /\ post = <<new>> \o SubSeq(prior, 1, 99)
             /\ ~Contains(post, prior[100])
             /\ \A i \in 1..100 : prior[100].timestamp <= prior[i].timestamp
      ]_vars

\* Two entries have been pushed out of a full log: its tail is now the third
\* oldest filler.
C6_Witness ==
    /\ Saved
    /\ Len(LoadedLog) = 100
    /\ LoadedLog[100].timestamp = 3
    /\ LoadedLog[1] = SavedExample

(* C7: delete(t) on a log that holds an entry with timestamp t removes only *)
(* that entry: the length decreases by exactly 1 and the other entries stay *)
(* in their order.                                                          *)
C7_DeleteRemovesOne ==
    [][ (lastCall'.op = "delete" /\ Carries(LoadedLog, lastCall'.timestamp)) =>
          /\ Len(LoadedLog') = Len(LoadedLog) - 1
          /\ \E i \in 1..Len(LoadedLog) :
                /\ LoadedLog[i].timestamp = lastCall'.timestamp
                /\ LoadedLog' = RemoveAt(LoadedLog, i)
      ]_vars

(* C8: delete(t) with a timestamp no entry of the log carries raises no     *)
(* error and leaves the log load returns as it was, whatever text is        *)
(* persisted.                                                               *)
C8_DeleteAbsentNoOp ==
    [][ (lastCall'.op = "delete" /\ ~Carries(LoadedLog, lastCall'.timestamp)) =>
          /\ ~lastCall'.threw
          /\ LoadFor(lastCall'.userId)' = LoadFor(lastCall'.userId)
      ]_vars

(* C9: load returns a sequence of entries whatever text is persisted, and   *)
(* the empty sequence unless that text is an array of entries.              *)
C9_LoadAlwaysSequence ==
    lastCall.op = "load" =>
        /\ IsArray(result)
        /\ storage.kind # "array" => result = Array(<<>>)

(* C10: retrieval returns only entries whose normalized sender equals the   *)
(* target's, and passes over such an entry only when the limit is reached:  *)
(* display name and letter case are ignored, another address never matches, *)
(* the subject plays no role.                                               *)
C10_SenderMatchOnly ==
    (lastCall.op = "retrieve" /\ ~lastCall.threw) =>
        LET target == NormalizedSender(lastCall.email.sender)
            found == result.items
        IN /\ \A i \in 1..Len(found) :
                 /\ NormalizedSender(found[i].sender) = target
                 /\ Contains(LoadedLog, found[i])
           /\ \A i \in 1..Len(LoadedLog) :
                 NormalizedSender(LoadedLog[i].sender) = target =>
                     Contains(found, LoadedLog[i]) \/ Len(found) = lastCall.limit

\* Retrieval for "Bob <é@x>" returned the entries stored under "Rob <É@x>"
\* (subject 1) and "É@X" (subject 2) and left out the one of "Bob <é@y>",
\* whose subject is the target's.
C10_Witness ==
    /\ lastCall.op = "retrieve"
    /\ lastCall.email.sender = BobX
    /\ \E i \in 1..Len(result.items) : result.items[i].sender = RobertX
    /\ \E i \in 1..Len(result.items) : result.items[i].sender = BareX
    /\ \E i \in 1..Len(LoadedLog) :
          /\ LoadedLog[i].sender = BobY
          /\ LoadedLog[i].subject = lastCall.email.subject
    /\ \A i \in 1..Len(result.items) : result.items[i].sender # BobY

\* Indices of the entries of log whose normalized sender is the target's.
MatchingIndices(log, sender) ==
    {i \in 1..Len(log) : NormalizedSender(log[i].sender) = NormalizedSender(sender)}

\* The index of the k-th entry of log, from its head, that matches sender.
KthMatch(log, sender, k) ==
    CHOOSE i \in MatchingIndices(log, sender) :
        Cardinality({j \in MatchingIndices(log, sender) : j <= i}) = k

(* C11: retrieval returns exactly the first min(limit, m) of the m entries  *)
(* whose sender matches, in the order of the log (newest first): never more *)
(* than limit, and with limit 1 the most recent matching entry.             *)
C11_FirstMatchesInLogOrder ==
    (lastCall.op = "retrieve" /\ ~lastCall.threw) =>
        LET sender == lastCall.email.sender
            m == Cardinality(MatchingIndices(LoadedLog, sender))
        IN /\ Len(result.items) <= lastCall.limit
           /\ Len(result.items) = Min(lastCall.limit, m)
           /\ \A k \in 1..Len(result.items) :
                 result.items[k] = LoadedLog[KthMatch(LoadedLog, sender, k)]

\* Retrieval with limit 1 on a log whose head does not match and which holds
\* two matching entries: the newer of the two is returned, alone.
C11_Witness ==
    /\ lastCall.op = "retrieve"
    /\ lastCall.limit = 1
    /\ Len(LoadedLog) >= 3
    /\ MatchingIndices(LoadedLog, lastCall.email.sender) = {2, 3}
    /\ result.items = <<LoadedLog[2]>>

----------------------------------------------------------------------------
(* Claims about classifyEmail *)

\* The promises that settled with a result.
Fulfilled == {i \in 1..Len(tasks) : tasks[i].state = "fulfilled"}

\* The model call failed: network or API failure.
CallFailed(task) == task.outcome.kind = "reject"

\* The result is the one the claims give to a service failure.
IsServiceFailure(value) ==
    value.category = UNCLASSIFIED /\ value.reasoning = ERROR_REASONING

(* C12: classify never raises to its caller: whatever the message, the      *)
(* persisted feedback, the API key and the outcome of the model call, the   *)
(* promise resolves to a result, and a failure yields Unclassified with a   *)
(* diagnostic reasoning.                                                    *)
C12_NeverRaises ==
    \A i \in 1..Len(tasks) :
        /\ tasks[i].state # "rejected"
        /\ (i \in Fulfilled /\ CallFailed(tasks[i])) =>
              /\ tasks[i].value.category = UNCLASSIFIED
              /\ tasks[i].value.reasoning # ""

\* The response text is no JSON, or is an object with neither property.
Malformed(task) ==
    \/ task.outcome.kind = "garbage"
    \/ /\ task.outcome.kind = "object"
       /\ ~task.outcome.category.defined
       /\ ~task.outcome.reasoning.defined

(* C13: when the model call returns a text that is no JSON or lacks the     *)
(* required fields, classify returns NotPersonal with the generic           *)
(* reasoning, not Unclassified.                                             *)
C13_MalformedIsNotPersonal ==
    \A i \in Fulfilled :
        Malformed(tasks[i]) =>
            /\ tasks[i].value.category = NOT_PERSONAL
            /\ tasks[i].value.reasoning = FALLBACK_REASONING

(* C14: classify returns Unclassified with "Error connecting to AI service" *)
(* if and only if the model call itself failed; a response that was         *)
(* received never produces that result.                                     *)
C14_FailureIffCallFailed ==
    \A i \in Fulfilled :
        IsServiceFailure(tasks[i].value) <=> CallFailed(tasks[i])

(* C15: every result carries a category among Personal, Not Personal and    *)
(* Unclassified and a non-empty reasoning, whatever the model returned.     *)
C15_ResultWellFormed ==
    \A i \in Fulfilled :
        /\ tasks[i].value.category \in ClassificationCategory
        /\ tasks[i].value.reasoning # ""

\* What C16 says usedContext is, for the log the call read: the first entry,
\* in log order, whose normalized sender is the message's; absent without one.
TopMatch(task) ==
    LET log == task.allHistory.items
        sender == task.email.sender
    IN IF MatchingIndices(log, sender) = {}
       THEN NoContext
       ELSE ContextOf(log[KthMatch(log, sender, 1)])

(* C16: every result carries the most recent matching entry of the log as  *)
(* usedContext, and none exactly when no entry matches.                     *)
C16_UsedContextIsTopMatch ==
    \A i \in Fulfilled : tasks[i].value.usedContext = TopMatch(tasks[i])

(* C20: a classifyEmail call made while the persisted text is unparseable   *)
(* or is JSON that is no array behaves as with an empty log: it retrieves   *)
(* nothing and goes on to the model call.                                   *)
C20_CorruptLogIsEmptyLog ==
    [][ ( /\ tasks' # tasks
          /\ storage.kind \in {"garbage", "null", "object"}
          /\ Len(tasks') = 1
          /\ tasks'[1].state \in {"pending", "rejected"}
          /\ tasks'[1].apiKey # Null )
        => ( /\ tasks'[1].state = "pending"
             /\ tasks'[1].relevantExamples = <<>> ) ]_vars

----------------------------------------------------------------------------
(* Claims about the batch and about reclassification *)

\* This step ends the load of slot k, which had fetched messages.
BatchEnds(k) ==
    loads[k].pc # "idle" /\ loads'[k].pc = "idle" /\ loads'[Ended].tasks # <<>>

(* C17: a batch completes with exactly one enriched record per input        *)
(* message, in input order, whatever the outcomes of the classifications;   *)
(* a message whose classification failed carries Unclassified and does not  *)
(* fail the batch or remove the results of the others.                      *)
C17_BatchIsolatesFailures ==
    [][ \A k \in LoadIds :
          BatchEnds(k) =>
             LET batch == loads'[Ended].tasks
             IN /\ error' = Null
                /\ Len(emails') = Len(batch)
                /\ \A i \in 1..Len(batch) :
                      /\ batch[i].state = "fulfilled"
                      /\ emails'[i] = Classified(Fetched(batch[i].email), batch[i].value)
                      /\ CallFailed(batch[i]) => emails'[i].classification = UNCLASSIFIED
      ]_vars

\* This step is handleMoveEmail: a save was made, and the call or the list
\* changed, while the load stood still.
Reclassifies ==
    /\ loads' = loads
    /\ lastCall'.op = "save"
    /\ lastCall' # lastCall \/ emails' # emails

(* C18: reclassify(message, newCategory) gives the displayed message of     *)
(* that id the new category, a reclassification timestamp and the manual    *)
(* marker as reasoning, and saves a feedback entry with the new category;   *)
(* every other message and every other field of the target (its original   *)
(* classification and used context among them) stays as it was.            *)
C18_ReclassifyFrame ==
    [][ Reclassifies =>
          LET target == lastCall'.email
              newCategory == lastCall'.category
          IN /\ Len(emails') = Len(emails)
             /\ \A i \in 1..Len(emails) :
                   IF emails[i].id # target.id
                   THEN emails'[i] = emails[i]
                   ELSE /\ emails'[i].classification = newCategory
                        /\ emails'[i].reclassifiedAt \in now..now'
                        /\ emails'[i].reasoning = MANUAL_REASONING
                        /\ emails'[i].originalClassification = emails[i].originalClassification
                        /\ emails'[i].contextExample = emails[i].contextExample
                        /\ Message(emails'[i]) = Message(emails[i])
             /\ LoadedLog' # <<>>
             /\ LoadedLog'[1] = newExample(target, newCategory, lastCall'.timestamp)
             /\ lastCall'.timestamp \in now..now'
      ]_vars

\* The load of slot k after this step: in its slot, or ended.
After(k) == IF loads'[k].pc = "idle" THEN loads'[Ended] ELSE loads'[k]

\* This step starts the classifications of the batch of slot k.
BatchStarts(k) == loads[k].pc = "fetching" /\ After(k).tasks # <<>>

\* The entry the last reclassification wrote is in the log and its normalized
\* sender is that of the message of `task`.
WrittenFor(task) ==
    /\ written # NoEntry
    /\ Contains(LoadedLog, written)
    /\ NormalizedSender(task.email.sender) = NormalizedSender(written.sender)

\* A classification that starts retrieves the entry just written first.
RetrievesWritten ==
    \A k \in LoadIds :
        BatchStarts(k) =>
            \A i \in 1..Len(After(k).tasks) :
                LET task == After(k).tasks[i]
                IN WrittenFor(task) =>
                      /\ task.state = "pending"
                      /\ task.relevantExamples # <<>>
                      /\ task.relevantExamples[1] = written

\* The classifications of slot k that return in this step, having retrieved
\* something.
Returning(k) ==
    {i \in 1..Len(loads[k].tasks) :
        /\ loads[k].pc = "classifying"
        /\ loads[k].tasks[i].state = "pending"
        /\ After(k).tasks[i].state = "fulfilled"
        /\ loads[k].tasks[i].relevantExamples # <<>>}

(* C19: a classification that starts after reclassify(m, c) returned, for   *)
(* a message of the same normalized sender, retrieves the entry written as  *)
(* its first precedent, and returns it as usedContext, unless the entry was *)
(* deleted in between. The entry written is that of the latest              *)
(* reclassification.                                                        *)
C19_WriteBeforeClassify ==
    [][ /\ RetrievesWritten
        /\ \A k \in LoadIds : \A i \in Returning(k) :
              After(k).tasks[i].value.usedContext =
                  ContextOf(loads[k].tasks[i].relevantExamples[1])
      ]_vars

\* The retrieval alone: a classification that starts retrieves the entry of
\* the latest reclassification before every older entry of its sender.
WriteIsFirstPrecedent == [][RetrievesWritten]_vars

\* A batch has retrieved the entry written before an older entry of the
\* same address.
OlderPrecedent ==
    \E i \in 1..Len(loads[Ended].tasks) :
        /\ Len(loads[Ended].tasks[i].relevantExamples) = 2
        /\ loads[Ended].tasks[i].relevantExamples[1] = written

----------------------------------------------------------------------------
(* Claims about the order of the log *)

(* C21: in every state saves and deletes reach, the timestamps of the log   *)
(* strictly decrease from its head to its tail, so no two entries share a   *)
(* timestamp.                                                               *)
C21_TimestampsStrictlyDecrease ==
    \A i, j \in 1..Len(LoadedLog) :
        i < j => LoadedLog[i].timestamp > LoadedLog[j].timestamp

----------------------------------------------------------------------------
(* Claims about two tabs *)

\* Both tabs made their store call to its end.
BothDone == \A t \in TabIds : tabs[t].pc = "done"

\* The other tab.
Other(t) == 3 - t

(* C22: when two tabs each made a save or a delete, their reads and writes  *)
(* interleaved in any way, the persisted log is the complete log the tab    *)
(* that wrote last computed from the log it had read (what the other tab    *)
(* wrote may be lost), and holds at most 100 entries.                       *)
C22_LastWriteWins ==
    BothDone =>
        LET w == tabs[lastWriter]
            read == w.currentHistory.items
            e == newExample(w.email, w.category, w.timestamp)
        IN /\ IsArray(getStoredTrainingData)
           /\ Len(LoadedLog) <= 100
           /\ LoadedLog =
                 IF w.op = "save"
                 THEN SubSeq(<<e>> \o SelectSeq(read, LAMBDA h : ~IsDuplicate(h, e)),
                             1, Min(100, 1 + Len(SelectSeq(read,
                                                   LAMBDA h : ~IsDuplicate(h, e)))))
                 ELSE SelectSeq(read, LAMBDA h : h.timestamp # w.timestamp)

\* Both tabs read a log of 99 entries before either wrote, and saved: the
\* log holds 100 entries, the last writer's among them, the other's lost.
C22_Witness ==
    /\ BothDone
    /\ Len(LoadedLog) = HISTORY_LIMIT
    /\ \A t \in TabIds : tabs[t].op = "save" /\ Len(tabs[t].currentHistory.items) = 99
    /\ LoadedLog[1] = newExample(tabs[lastWriter].email, tabs[lastWriter].category,
                                 tabs[lastWriter].timestamp)
    /\ ~Contains(LoadedLog, newExample(tabs[Other(lastWriter)].email,
                                       tabs[Other(lastWriter)].category,
                                       tabs[Other(lastWriter)].timestamp))


\* C23: the results of a batch are written into the displayed list only in
\* the session that started its load: when a batch completes and changes the
\* list, the session still has the access token and the mode the load was
\* started with.
C23_BatchResultsStayInTheirSession ==
    [][ \A k \in LoadIds :
          (BatchEnds(k) /\ emails' # emails)
             => (loads[k].accessToken = accessToken' /\ loads[k].isDemoMode = isDemoMode')
      ]_vars

\* C24: when the list request of a load is answered with HTTP 401, the load
\* ends the session: the access token is cleared from the state, the stored
\* token is removed and the error shown is "Session expired. Please
\* reconnect.".
C24_UnauthorizedEndsSession ==
    [][ (\E k \in LoadIds : /\ loads[k].pc = "fetching"
                              /\ loads'[k].pc = "idle"
                              /\ loads'[Ended].status = UNAUTHORIZED)
          => /\ accessToken' = Null
             /\ tokenStore' = Null
             /\ error' = "Session expired. Please reconnect." ]_vars

\* The ids of the displayed emails whose category is one of the given ones.
IdsOfCategories(categories) ==
    { emails[i].id : i \in { j \in 1..Len(emails) : emails[j].classification \in categories } }

\* Every email of the list is kept except those with the given ids.
RemovedExactly(ids) ==
    /\ Ids(emails') = Ids(emails) \ ids
    /\ Len(emails') = Cardinality(Ids(emails'))
    /\ \A i \in 1..Len(emails') : \E j \in 1..Len(emails) : emails'[i] = emails[j]

\* C25: outside demo mode, a confirmed mark-all-read calls the provider with
\* the ids of the emails its column shows at the click (Personal: the
\* Personal ones; Not Personal: the NotPersonal and Unclassified ones) and
\* leaves the list as it is; a declined confirmation and a failed call leave
\* the list unchanged; a successful call removes exactly the emails it
\* marked; and no other step of the app outside a load removes an email.
C25_MarkAllReadAfterConfirmation ==
    [][ ~isDemoMode =>
          /\ \A k \in MarkIds :
                /\ (marking'[k] # marking[k] /\ marking[k].state # "calling") =>
                      /\ emails' = emails
                      /\ marking'[k] # NotMarking =>
                            /\ marking'[k].state \in {"declined", "calling"}
                            /\ marking'[k].accessToken = accessToken
                            /\ marking'[k].ids # {}
                            /\ \/ /\ marking'[k].category = PERSONAL
                                  /\ marking'[k].ids = IdsOfCategories({PERSONAL})
                               \/ /\ marking'[k].category = NOT_PERSONAL
                                  /\ marking'[k].ids =
                                        IdsOfCategories({NOT_PERSONAL, UNCLASSIFIED})
                /\ (marking'[k] # marking[k] /\ marking[k].state = "calling") =>
                      \/ marking'[k].state = "failed" /\ emails' = emails
                      \/ marking'[k].state = "marked" /\ RemovedExactly(marking[k].ids)
          /\ (loads' = loads /\ ~(Ids(emails) \subseteq Ids(emails'))) =>
                \E k \in MarkIds :
                    marking[k].state = "calling" /\ marking'[k].state = "marked" ]_vars

\* The Personal column was marked read, while another provider call was in
\* flight, and another email stays displayed.
C25_Witness ==
    /\ \E k, j \in MarkIds :
          /\ marking[k].state = "marked"
          /\ marking[k].category = PERSONAL
          /\ marking[k].ids # {}
          /\ marking[j].state \in {"calling", "marked", "failed"}
          /\ j # k
    /\ emails # <<>>
    /\ \A i \in 1..Len(emails) : emails[i].classification # PERSONAL
    /\ \A k \in LoadIds : loads[k].pc = "idle"

\* C26: when the calls of a load return, the load terminates: whenever the
\* loading flag is set it is eventually cleared, whether the fetch returned
\* no mail, the batch was classified, or the fetch or a classification
\* failed.
C26_LoadTerminates == isLoading ~> ~isLoading

\* A load has classified its batch and cleared the loading flag.
C26_Witness ==
    /\ ~isLoading
    /\ \A k \in LoadIds : loads[k].pc = "idle"
    /\ LET batch == loads[Ended].tasks
       IN /\ loads[Ended].status = 200
          /\ batch # <<>>
          /\ \A i \in 1..Len(batch) : batch[i].state = "fulfilled"
          /\ \E i \in 1..Len(batch) : batch[i].outcome.kind = "reject"

\* C27: a message the user reclassified while its batch was in flight still
\* shows the user's category and the manual-reclassification reasoning after
\* the batch has completed.
C27_ManualReclassificationSurvives ==
    [][ (\E k \in LoadIds : loads[k].pc = "classifying" /\ loads'[k].pc = "idle") =>
          \A i \in 1..Len(emails) :
              emails[i].reasoning = MANUAL_REASONING =>
                  \E j \in 1..Len(emails') :
                      /\ emails'[j].id = emails[i].id
                      /\ emails'[j].classification = emails[i].classification
                      /\ emails'[j].reasoning = MANUAL_REASONING ]_vars

\* C28: while the app shows its tabs, a reclassification list that is not
\* empty was read from the log for the current user id; and no save and no
\* delete is made under the placeholder id 'unknown'.
C28_FeedbackListOfCurrentUser ==
    /\ ((accessToken # Null \/ isDemoMode) /\ trainingData.items # <<>>)
          => trainingDataFor = currentUserId
    /\ lastCall.op \in {"save", "delete"} => lastCall.userId # "unknown"

InSeq(e, list) == \E k \in 1..Len(list) : list[k] = e

\* C29: every email of the displayed list is in exactly one of the two
\* columns.
C29_ExactlyOneColumn ==
    \A i \in 1..Len(emails) :
        InSeq(emails[i], personalEmails) # InSeq(emails[i], notPersonalEmails)

\* C30: every classification call of a load is made with the user id of the
\* account that owns the access token its messages were fetched with, and so
\* with a known user id.
C30_ClassifiedWithOwnersFeedback ==
    \A k \in LoadIds \cup {Ended} : \A i \in 1..Len(loads[k].tasks) :
        /\ loads[k].accessToken \in Tokens
        /\ loads[k].tasks[i].userId = getUserProfile(loads[k].accessToken)
====
